---- MODULE Spec2Model ----
(***************************************************************************)
(* Model of ProductHuntScraper (src/ph_scraper.py): the token manager      *)
(* (authenticate) and the paginated fetch loop with retry and backoff      *)
(* (get_posts_by_date, get_top_posts).                                     *)
(*                                                                         *)
(* Time is counted in tenths of a second, so that every delay the code     *)
(* computes (uniform(1.0, 4.0), RETRY_DELAY * 2^attempt * uniform(0.8,     *)
(* 1.2), expires_in * 0.9) is an integer.  random.uniform(a, b) is a       *)
(* choice between the two ends of its range.                               *)
(*                                                                         *)
(* One fetch call is a sequence of steps: the call itself (authenticate,   *)
(* set-up of the loop variables) and then one step per attempt of a page   *)
(* request, each with the reply the upstream gives to it.  The loops of    *)
(* get_posts_by_date (lines 256-343) and get_top_posts (lines 549-636)     *)
(* are the same statements; the attempt actions model both.  date_str is   *)
(* a valid ISO date and limit is not negative.                             *)
(***************************************************************************)
EXTENDS Integers, Sequences, FiniteSets, TLC

\* ---------------------------------------------------------------- bounds
MaxCalls == 3          \* calls of authenticate on one scraper
MaxRequests == 4       \* page requests sent within one fetch
MaxPageItems == 2      \* items the upstream puts in one page
MaxLimit == 2          \* largest limit a caller passes
MaxTime == 96          \* horizon of the clock
Latency == 1           \* duration of one network call
SlowLatency == 45      \* duration of a network call that is slow to return
IdleStep == 10         \* an idle period of the caller between two calls
MaxPosts == 2          \* posts handed to one call of process_post_data
MaxFetched == 2        \* posts one fetch of a day or period returns
MaxDays == 2           \* days of one scrape_recent_days
MaxRecords == 2        \* records of a flat file
MaxN == 1              \* largest n passed to get_top_products
MaxRuns == 2           \* runs of the analyzer's main
MaxChanges == 1        \* times the flat file is replaced

\* ------------------------------------------------------ program constants
MAX_RETRIES == 3
RETRY_DELAY == 2
DEFAULT_EXPIRES_IN == 7200
PAGE_SIZE == 50        \* "first": 50
PaceMin == 10          \* random.uniform(1.0, 4.0), lower end
PaceMax == 40          \* random.uniform(1.0, 4.0), upper end
JitterMin == 8         \* random.uniform(0.8, 1.2), lower end
JitterMax == 12        \* random.uniform(0.8, 1.2), upper end
PauseMin == 30         \* random.uniform(3.0, 8.0), lower end
PauseMax == 80         \* random.uniform(3.0, 8.0), upper end
DEFAULT_TOP_N == 20    \* get_top_products(n=20)

\* ------------------------------------------------------------- encodings
None == 0              \* Python None (also the empty string): falsy
NoPause == 0
Absent == -1           \* key not present in a JSON body
NotANumber == -2       \* a JSON value that is no number (null, a string)
StartTime == PaceMax       \* time.time() at construction; last_request_time
                           \* starts at 0, far in the past of any real clock

PaceDelays == {PaceMin, PaceMax}
Jitters == {JitterMin, JitterMax}
Pauses == {NoPause, PauseMin, PauseMax}
Latencies == {Latency}                      \* of a page request
ExchangeLatencies == {Latency, SlowLatency}  \* of the token exchange, which may be slow
Limits == {0, MaxLimit}
Periods == {"today", "yesterday", "week", "month", "all_time"}
ExpiresInValues == {Absent, 1}      \* seconds, as reported by the upstream
PostIds == {1, 2}                   \* the posts the upstream holds
PeriodLists == {<<"today">>, <<"today", "week">>, <<"week", "today", "week">>}

\* replies to the token exchange: a token with a numeric or no expires_in, a
\* body without access_token, a failed request, a token with an expires_in
\* that is no number
AuthKinds == {"ok", "no_token", "request_error", "bad_expires"}
\* replies to a page request: those the retry path handles, those that make
\* the loop body raise, and a page (hasNextPage true, false or not there)
RetryKinds == {"transport", "http_error", "gql_errors", "missing_key"}
RaiseKinds == {"null_data", "null_posts", "edge_no_node"}
Signals == {"true", "false", "absent"}

VARIABLES
    \* the scraper object
    access_token, token_expiry, auth_header, use_stealth, last_request_time,
    \* the environment
    now, creds,
    \* the frame of the running fetch
    pc, limit, all_posts, has_next_page, cursor, var_cursor, attempt, result,
    \* observations of the running fetch
    calls, idled, exit, served, lastSignal, lastReply, pageReqCount,
    pageAttempts, firstReq, lastReq, backoffCount, lastBackoff, staleIter,
    lastAuth,
    \* process_post_data on its own
    raw_posts, processed_posts,
    \* scrape_recent_days, scrape_top_posts and export_to_csv
    spc, todo, scraped, encountered, output_file, before_export, export_result,
    scrape_call, pauses, exit_status, interrupted,
    \* the analyzer object, its flat file and its output directory
    data_file, df, topics_count, daily_stats, top_products, top_n, analysis_dir,
    quicksort_ties, last_call, last_ok, analyzer_raised,
    runs, changes, last_run, prev_run,
    \* analyze_with_llm: the Groq client, the stored narrative, the last call
    groq_client, trend_analysis, llm_call

scraperVars == <<access_token, token_expiry, auth_header, use_stealth, last_request_time>>
envVars == <<now, creds>>
frameVars == <<pc, limit, all_posts, has_next_page, cursor, var_cursor, attempt, result>>
obsVars == <<calls, idled, exit, served, lastSignal, lastReply, pageReqCount,
             pageAttempts, firstReq, lastReq, backoffCount, lastBackoff, staleIter,
             lastAuth>>
normVars == <<raw_posts, processed_posts>>
scrapeVars == <<spc, todo, scraped, encountered, output_file, before_export,
                export_result, scrape_call, pauses, exit_status, interrupted>>
analyzerVars == <<data_file, df, topics_count, daily_stats, top_products, top_n,
                  analysis_dir, quicksort_ties, last_call, last_ok, analyzer_raised,
                  runs, changes, last_run, prev_run,
                  groq_client, trend_analysis, llm_call>>
llmVars == <<groq_client, trend_analysis, llm_call>>
pipelineVars == <<normVars, scrapeVars, analyzerVars>>
vars == <<scraperVars, envVars, frameVars, obsVars, pipelineVars>>

\* ------------------------------------------------------------ pure parts

RECURSIVE Pow2(_)
Pow2(n) == IF n <= 0 THEN 1 ELSE 2 * Pow2(n - 1)

RECURSIVE Flatten(_)
Flatten(pages) == IF pages = <<>> THEN <<>> ELSE Head(pages) \o Flatten(Tail(pages))

DelayRequest_IgnoresElapsed(stealth, t, lrt, delay) ==
    IF ~stealth THEN [now |-> t, lrt |-> lrt]
    ELSE [now |-> t + delay, lrt |-> t + delay]

\* _delay_request: the clock and last_request_time after the pacing step
DelayRequest(stealth, t, lrt, delay) ==
    IF ~stealth THEN [now |-> t, lrt |-> lrt]
    ELSE LET elapsed == t - lrt
             t2 == IF elapsed < delay THEN t + (delay - elapsed) ELSE t
         IN  [now |-> t2, lrt |-> t2]

\* line 135: the cached token is reused
TokenValid(token, expiry, t) == token # None /\ t < expiry

TokenExpiry_NoMargin(t, expires_in) ==
    t + (IF expires_in = Absent THEN DEFAULT_EXPIRES_IN ELSE expires_in) * 10

\* line 169-170: expiry of a token obtained at time t (expires_in in seconds,
\* the clock in tenths of a second: 0.9 * expires_in s = 9 * expires_in)
TokenExpiry(t, expires_in) ==
    t + (IF expires_in = Absent THEN DEFAULT_EXPIRES_IN ELSE expires_in) * 9

NoAuth == [called |-> FALSE]
NoRequest == [sent |-> FALSE]

\* the token endpoint hands out a token other than the one it handed out before
NewToken(old) == old + 1

\* authenticate: s is the scraper and the clock before the call, in the
\* reply of the token endpoint and the random pacing delay
authenticate(s, in) ==
    LET before == [called |-> TRUE, at |-> s.now, tokenBefore |-> s.access_token,
                   expiryBefore |-> s.token_expiry, headerBefore |-> s.auth_header]
    IN
    IF TokenValid(s.access_token, s.token_expiry, s.now)
    THEN [s EXCEPT !.ok = TRUE,
                   !.obs = before @@ [exchanged |-> FALSE, kind |-> "cached", ok |-> TRUE]]
    ELSE IF ~s.creds
    THEN [s EXCEPT !.ok = FALSE,
                   !.obs = before @@ [exchanged |-> FALSE, kind |-> "no_creds", ok |-> FALSE]]
    ELSE
    LET d == DelayRequest(s.stealth, s.now, s.last_request_time, in.pace)
        t == d.now + in.latency
        sent == [s EXCEPT !.now = t, !.last_request_time = d.lrt]
        O(ok) == before @@ [exchanged |-> TRUE, kind |-> in.kind, ok |-> ok,
                            sentAt |-> d.now, doneAt |-> t, expires_in |-> in.expires_in]
    IN  CASE in.kind = "request_error" -> [sent EXCEPT !.ok = FALSE, !.obs = O(FALSE)]
          [] in.kind = "no_token" -> [sent EXCEPT !.ok = FALSE, !.obs = O(FALSE)]
          [] in.kind = "bad_expires" ->
                \* line 166 has stored the token when line 170 raises TypeError
                [sent EXCEPT !.access_token = NewToken(s.access_token),
                             !.ok = FALSE, !.obs = O(FALSE)]
          [] in.kind = "ok" ->
                [sent EXCEPT !.access_token = NewToken(s.access_token),
                             !.token_expiry = TokenExpiry(t, in.expires_in),
                             !.auth_header = NewToken(s.access_token),
                             !.ok = TRUE, !.obs = O(TRUE)]

AuthInputs ==
    [pace : PaceDelays, latency : ExchangeLatencies, expires_in : {Absent},
     kind : {"no_token", "request_error"}]
    \cup [pace : PaceDelays, latency : ExchangeLatencies, expires_in : {NotANumber},
          kind : {"bad_expires"}]
    \cup [pace : PaceDelays, latency : ExchangeLatencies, expires_in : ExpiresInValues,
          kind : {"ok"}]

\* the inputs that make a difference to a call of authenticate in state s
AuthInputsFor(s) ==
    IF TokenValid(s.access_token, s.token_expiry, s.now) \/ ~s.creds
    THEN {[pace |-> PaceMin, latency |-> Latency, kind |-> "ok", expires_in |-> Absent]}
    ELSE {in \in AuthInputs : ~s.stealth => in.pace = PaceMin}

Self == [access_token |-> access_token, token_expiry |-> token_expiry,
         auth_header |-> auth_header, last_request_time |-> last_request_time,
         stealth |-> use_stealth, creds |-> creds, now |-> now,
         ok |-> FALSE, obs |-> NoAuth]

BackoffDelay_NoExponent(att, jitter) == RETRY_DELAY * jitter

\* line 284: the backoff delay after a failed attempt
BackoffDelay(att, jitter) == (RETRY_DELAY * Pow2(att)) * jitter

\* line 282: another attempt follows this one
ShouldRetry(att) == att < MAX_RETRIES - 1

LoopCondition_IgnoresSignal(has_next, count, lim) == count < lim \/ lim <= 0

\* line 261: the condition of the page loop
LoopCondition(has_next, count, lim) == has_next /\ (count < lim \/ lim <= 0)

\* line 332: the limit check after a page
LimitReached(count, lim) == 0 < lim /\ lim <= count

Extend_Truncating(posts, page, lim) ==
    IF 0 < lim /\ lim < Len(posts \o page)
    THEN SubSeq(posts \o page, 1, lim)
    ELSE posts \o page

Extend_Twice(posts, page, lim) == posts \o page \o page

\* line 307: all_posts.extend(posts)
Extend(posts, page, lim) == posts \o page

FetchAborts_Never(ok) == FALSE

\* lines 195, 357: the fetch gives up when authenticate returns False
FetchAborts(ok) == ~ok

ReturnOnExhausted_Empty(posts) == <<>>

\* lines 288, 298, 329: the value returned when a page has used up its attempts
ReturnOnExhausted(posts) == posts

\* line 262-263: variables["cursor"] is only overwritten by a truthy cursor
NextVariables(varc, c) == IF c # None THEN c ELSE varc

\* the upstream: a cursor names a position in the list of posts
CursorAt(p) == p + 1
PositionOf(c) == IF c = None THEN 0 ELSE c - 1
PageItems(c, n) == [i \in 1 .. n |-> PositionOf(c) + i]

\* ------------------------------------------- the pipeline before any call

NoFile == [exists |-> FALSE]
NoFrame == [loaded |-> FALSE]          \* self.df = None
NotComputed == [computed |-> FALSE]    \* an aggregate that is None
NotProcessed == [called |-> FALSE]
NoRun == [ran |-> FALSE]
NoNarrative == [stored |-> FALSE]      \* self.trend_analysis = None
NoLlmCall == [called |-> FALSE]

EmptyDir == [basic_stats |-> NoFile, topic_analysis |-> NoFile,
             daily_trends |-> NoFile, top_products |-> NoFile]

AnalyzerNew ==
    /\ df = NoFrame /\ topics_count = NotComputed /\ daily_stats = NotComputed
    /\ top_products = NotComputed /\ top_n = 0

AnalyzerIdle ==
    /\ AnalyzerNew
    /\ data_file = NoFile /\ analysis_dir = EmptyDir /\ quicksort_ties = "kept"
    /\ last_call = "none" /\ last_ok = FALSE /\ analyzer_raised = FALSE
    /\ runs = 0 /\ changes = 0 /\ last_run = NoRun /\ prev_run = NoRun
    /\ groq_client = FALSE /\ trend_analysis = NoNarrative /\ llm_call = NoLlmCall

NormalizeIdle == raw_posts = <<>> /\ processed_posts = NotProcessed

NoCall == [mode |-> "none"]       \* no scrape function called
NotExited == [exited |-> FALSE]   \* main has not returned

ScrapeIdle ==
    /\ spc = "idle" /\ todo = <<>> /\ scraped = <<>> /\ encountered = <<>>
    /\ output_file = NoFile /\ before_export = NoFile /\ export_result = "none"
    /\ scrape_call = NoCall /\ pauses = <<>>
    /\ exit_status = NotExited /\ interrupted = FALSE

\* ------------------------------------------------------------------ Init

\* the scraper after construction, no fetch running
FetchIdle ==
    /\ access_token = None /\ token_expiry = 0 /\ auth_header = None
    /\ last_request_time = 0
    /\ now = StartTime
    /\ pc = "idle" /\ limit = 0 /\ all_posts = <<>>
    /\ has_next_page = FALSE /\ cursor = None /\ var_cursor = None
    /\ attempt = 0 /\ result = <<>>
    /\ calls = 0 /\ idled = FALSE /\ exit = "none" /\ served = <<>>
    /\ lastSignal = "none" /\ lastReply = "none" /\ pageReqCount = 0
    /\ pageAttempts = 0 /\ firstReq = NoRequest /\ lastReq = NoRequest
    /\ backoffCount = 0 /\ lastBackoff = [taken |-> FALSE]
    /\ staleIter = FALSE /\ lastAuth = NoAuth

Init ==
    /\ FetchIdle /\ use_stealth \in BOOLEAN /\ creds \in BOOLEAN
    /\ NormalizeIdle /\ ScrapeIdle /\ AnalyzerIdle

SetScraper(s) ==
    /\ access_token' = s.access_token
    /\ token_expiry' = s.token_expiry
    /\ auth_header' = s.auth_header
    /\ last_request_time' = s.last_request_time
    /\ now' = s.now
    /\ lastAuth' = s.obs
    /\ UNCHANGED <<use_stealth, creds>>

\* lines 194-261 (356-359, 549-554): the fetch after authenticate returned
StartFetch(lim, s) ==
    /\ SetScraper(s)
    /\ s.now <= MaxTime
    /\ limit' = lim
    /\ all_posts' = <<>> /\ cursor' = None /\ var_cursor' = None /\ attempt' = 0
    /\ result' = <<>>
    /\ IF FetchAborts(s.ok)
       THEN /\ pc' = "returned" /\ exit' = "auth_failed" /\ has_next_page' = FALSE
       ELSE /\ has_next_page' = TRUE
            /\ IF LoopCondition(TRUE, 0, lim)
               THEN pc' = "page" /\ exit' = "none"
               ELSE pc' = "returned" /\ exit' = "no_more"
    /\ UNCHANGED <<calls, idled, served, lastSignal, lastReply, pageReqCount,
                   pageAttempts, firstReq, lastReq, backoffCount, lastBackoff,
                   staleIter>>
    /\ UNCHANGED pipelineVars

\* a direct call of authenticate
Authenticate ==
    /\ pc = "idle" /\ calls < MaxCalls
    /\ \E in \in AuthInputsFor(Self) :
         LET s == authenticate(Self, in)
         IN  /\ SetScraper(s) /\ s.now <= MaxTime
    /\ calls' = calls + 1 /\ idled' = FALSE
    /\ UNCHANGED <<frameVars, exit, served, lastSignal, lastReply,
                   pageReqCount, pageAttempts, firstReq, lastReq, backoffCount,
                   lastBackoff, staleIter>>
    /\ UNCHANGED pipelineVars

CallGetPostsByDate ==
    /\ pc = "idle"
    /\ \E lim \in Limits, in \in AuthInputsFor(Self) :
         StartFetch(lim, authenticate(Self, in))

\* get_top_posts: for today and yesterday it delegates to get_posts_by_date,
\* which authenticates once more
CallGetTopPosts ==
    /\ pc = "idle"
    /\ \E period \in Periods, lim \in Limits, in1 \in AuthInputsFor(Self) :
         LET s1 == authenticate(Self, in1)
         IN  IF ~FetchAborts(s1.ok) /\ period \in {"today", "yesterday"}
             THEN LET s2 == [s1 EXCEPT !.ok = FALSE, !.obs = NoAuth]
                  IN  \E in2 \in AuthInputsFor(s2) :
                        StartFetch(lim, authenticate(s2, in2))
             ELSE StartFetch(lim, s1)

\* the request a page attempt sends: payload is built once per page, line 265
Request == [sent |-> TRUE, cursor |-> var_cursor, first |-> PAGE_SIZE,
            count |-> Len(all_posts)]

\* what every attempt does first: pacing (line 271), then the request is sent
\* at a time when no authenticate call has looked at the token's expiry
Send(pace, kind) ==
    LET d == DelayRequest(use_stealth, now, last_request_time, pace)
    IN  /\ (~use_stealth => pace = PaceMin)
        /\ last_request_time' = d.lrt
        /\ pageReqCount' = pageReqCount + 1
        /\ firstReq' = IF pageAttempts = 0 THEN Request ELSE firstReq
        /\ lastReq' = Request
        /\ lastReply' = kind
        /\ staleIter' = (staleIter \/ (attempt = 0 /\ served # <<>> /\ now >= token_expiry))

ReceivedAt(pace, latency) ==
    DelayRequest(use_stealth, now, last_request_time, pace).now + latency

\* an attempt that ends in the retry path: "errors" in the body (lines 280-288),
\* a missing data, posts or edges key (lines 291-298), a RequestException of
\* requests.post or raise_for_status (lines 320-329)
AttemptFails ==
    /\ pc = "page" /\ pageReqCount < MaxRequests
    /\ \E pace \in PaceDelays, latency \in Latencies, kind \in RetryKinds, jitter \in Jitters :
         /\ Send(pace, "retryable")
         /\ pageAttempts' = pageAttempts + 1
         /\ IF ShouldRetry(attempt)
            THEN /\ now' = ReceivedAt(pace, latency) + BackoffDelay(attempt, jitter)
                 /\ attempt' = attempt + 1
                 /\ backoffCount' = backoffCount + 1
                 /\ lastBackoff' = [taken |-> TRUE, after |-> attempt, jitter |-> jitter,
                                    delay |-> now' - ReceivedAt(pace, latency)]
                 /\ UNCHANGED <<pc, result, exit>>
            ELSE /\ now' = ReceivedAt(pace, latency)
                 /\ pc' = "returned" /\ result' = ReturnOnExhausted(all_posts)
                 /\ exit' = "exhausted"
                 /\ UNCHANGED <<attempt, backoffCount, lastBackoff>>
         /\ now' <= MaxTime
    /\ UNCHANGED <<access_token, token_expiry, auth_header, use_stealth, creds,
                   limit, all_posts, has_next_page, cursor, var_cursor,
                   calls, idled, served, lastSignal, lastAuth>>
    /\ UNCHANGED pipelineVars

\* an attempt whose reply makes line 291 raise TypeError ("data" or "posts" is
\* null) or line 306 raise KeyError (an edge without "node"); the except
\* clause of line 320 catches RequestException only
AttemptRaises ==
    /\ pc = "page" /\ pageReqCount < MaxRequests
    /\ \E pace \in PaceDelays, latency \in Latencies, kind \in RaiseKinds :
         /\ Send(pace, kind)
         /\ now' = ReceivedAt(pace, latency)
         /\ now' <= MaxTime
    /\ pageAttempts' = pageAttempts + 1
    /\ pc' = "raised" /\ exit' = "raised"
    /\ UNCHANGED <<access_token, token_expiry, auth_header, use_stealth, creds,
                   limit, all_posts, has_next_page, cursor, var_cursor, attempt,
                   result, calls, idled, served, lastSignal,
                   backoffCount, lastBackoff, lastAuth>>
    /\ UNCHANGED pipelineVars

\* a successful attempt: lines 300-318, then lines 331-340 and the loop test
\* of line 261; the next iteration sets variables["cursor"] (lines 262-263)
AttemptSucceeds ==
    /\ pc = "page" /\ pageReqCount < MaxRequests
    /\ \E pace \in PaceDelays, latency \in Latencies, n \in 0 .. MaxPageItems,
          signal \in Signals, nullCursor \in BOOLEAN, pause \in Pauses :
         LET page == PageItems(var_cursor, n)
             hnp == (signal = "true")
             cur == IF signal = "absent" \/ nullCursor THEN None
                    ELSE CursorAt(PositionOf(var_cursor) + n)
             posts == Extend(all_posts, page, limit)
         IN  /\ (~use_stealth => pause = NoPause)
             /\ (signal = "absent" => nullCursor)
             /\ (signal = "false" => ~nullCursor)
             /\ Send(pace, "ok")
             /\ now' = ReceivedAt(pace, latency) + pause
             /\ now' <= MaxTime
             /\ has_next_page' = hnp /\ cursor' = cur /\ all_posts' = posts
             /\ served' = Append(served, page)
             /\ lastSignal' = signal
             /\ IF LimitReached(Len(posts), limit)
                THEN /\ pc' = "returned" /\ result' = posts /\ exit' = "limit"
                     /\ pageAttempts' = pageAttempts + 1
                     /\ UNCHANGED <<var_cursor, attempt, backoffCount>>
                ELSE IF LoopCondition(hnp, Len(posts), limit)
                THEN /\ pc' = "page" /\ attempt' = 0
                     /\ var_cursor' = NextVariables(var_cursor, cur)
                     /\ pageAttempts' = 0 /\ backoffCount' = 0
                     /\ UNCHANGED <<result, exit>>
                ELSE /\ pc' = "returned" /\ result' = posts /\ exit' = "no_more"
                     /\ pageAttempts' = pageAttempts + 1
                     /\ UNCHANGED <<var_cursor, attempt, backoffCount>>
    /\ UNCHANGED <<access_token, token_expiry, auth_header, use_stealth, creds,
                   limit, calls, idled, lastBackoff, lastAuth>>
    /\ UNCHANGED pipelineVars

\* time passes between two calls
Elapse ==
    /\ pc = "idle" /\ calls > 0 /\ calls < MaxCalls /\ ~idled
    /\ now' = now + IdleStep /\ now' <= MaxTime
    /\ idled' = TRUE
    /\ UNCHANGED <<scraperVars, creds, frameVars, calls, exit, served,
                   lastSignal, lastReply, pageReqCount, pageAttempts,
                   firstReq, lastReq, backoffCount, lastBackoff, staleIter,
                   lastAuth>>
    /\ UNCHANGED pipelineVars

\* a fetch on a new scraper: the call, then its page requests
Next ==
    \/ CallGetPostsByDate
    \/ CallGetTopPosts
    \/ AttemptFails
    \/ AttemptRaises
    \/ AttemptSucceeds

Spec == Init /\ [][Next]_vars

\* the token manager alone: calls of authenticate and the time between them
NextAuth ==
    \/ Authenticate
    \/ Elapse

SpecAuth == Init /\ [][NextAuth]_vars

\* ------------------------------------------- the page loop without its clock

\* The statements of the page loop (lines 261-340, 554-633) on the frame of
\* the fetch alone: the clock and the observations stay as they are, so that a
\* loop that goes round for ever is a cycle of states.

InitTermination ==
    /\ FetchIdle /\ use_stealth \in BOOLEAN /\ creds \in BOOLEAN
    /\ NormalizeIdle /\ ScrapeIdle /\ AnalyzerIdle

\* lines 194-261: the call with limit > 0; authenticate succeeds when the
\* credentials are configured
FetchCall ==
    /\ pc = "idle"
    /\ \E lim \in 1 .. MaxLimit :
         /\ limit' = lim
         /\ IF FetchAborts(creds)
            THEN /\ pc' = "returned" /\ exit' = "auth_failed" /\ has_next_page' = FALSE
            ELSE /\ has_next_page' = TRUE
                 /\ IF LoopCondition(TRUE, 0, lim)
                    THEN pc' = "page" /\ exit' = "none"
                    ELSE pc' = "returned" /\ exit' = "no_more"
    /\ all_posts' = <<>> /\ cursor' = None /\ var_cursor' = None /\ attempt' = 0
    /\ result' = <<>>
    /\ UNCHANGED <<scraperVars, envVars, calls, idled, served, lastSignal, lastReply,
                   pageReqCount, pageAttempts, firstReq, lastReq, backoffCount,
                   lastBackoff, staleIter, lastAuth>>
    /\ UNCHANGED pipelineVars

\* lines 280-298, 320-329: an attempt that ends in the retry path
PageAttemptFails ==
    /\ pc = "page"
    /\ IF ShouldRetry(attempt)
       THEN /\ attempt' = attempt + 1
            /\ UNCHANGED <<pc, result, exit>>
       ELSE /\ pc' = "returned" /\ result' = ReturnOnExhausted(all_posts)
            /\ exit' = "exhausted"
            /\ UNCHANGED attempt
    /\ UNCHANGED <<limit, all_posts, has_next_page, cursor, var_cursor>>
    /\ UNCHANGED <<scraperVars, envVars, calls, idled, served, lastSignal, lastReply,
                   pageReqCount, pageAttempts, firstReq, lastReq, backoffCount,
                   lastBackoff, staleIter, lastAuth>>
    /\ UNCHANGED pipelineVars

\* lines 291, 306: a reply on which the loop body raises
PageAttemptRaises ==
    /\ pc = "page"
    /\ pc' = "raised" /\ exit' = "raised"
    /\ UNCHANGED <<limit, all_posts, has_next_page, cursor, var_cursor, attempt, result>>
    /\ UNCHANGED <<scraperVars, envVars, calls, idled, served, lastSignal, lastReply,
                   pageReqCount, pageAttempts, firstReq, lastReq, backoffCount,
                   lastBackoff, staleIter, lastAuth>>
    /\ UNCHANGED pipelineVars

\* lines 300-318, 331-340, 261-263: a page of n items, its hasNextPage and
\* endCursor
PageAttemptSucceeds ==
    /\ pc = "page"
    /\ \E n \in 0 .. MaxPageItems, signal \in Signals, nullCursor \in BOOLEAN :
         LET page == PageItems(var_cursor, n)
             hnp == (signal = "true")
             cur == IF signal = "absent" \/ nullCursor THEN None
                    ELSE CursorAt(PositionOf(var_cursor) + n)
             posts == Extend(all_posts, page, limit)
         IN  /\ (signal = "absent" => nullCursor)
             /\ (signal = "false" => ~nullCursor)
             /\ has_next_page' = hnp /\ cursor' = cur /\ all_posts' = posts
             /\ IF LimitReached(Len(posts), limit)
                THEN /\ pc' = "returned" /\ result' = posts /\ exit' = "limit"
                     /\ UNCHANGED <<var_cursor, attempt>>
                ELSE IF LoopCondition(hnp, Len(posts), limit)
                THEN /\ pc' = "page" /\ attempt' = 0
                     /\ var_cursor' = NextVariables(var_cursor, cur)
                     /\ UNCHANGED <<result, exit>>
                ELSE /\ pc' = "returned" /\ result' = posts /\ exit' = "no_more"
                     /\ UNCHANGED <<var_cursor, attempt>>
    /\ UNCHANGED limit
    /\ UNCHANGED <<scraperVars, envVars, calls, idled, served, lastSignal, lastReply,
                   pageReqCount, pageAttempts, firstReq, lastReq, backoffCount,
                   lastBackoff, staleIter, lastAuth>>
    /\ UNCHANGED pipelineVars

NextTermination ==
    \/ FetchCall
    \/ PageAttemptFails
    \/ PageAttemptRaises
    \/ PageAttemptSucceeds

\* the interpreter goes on to the next statement as long as there is one; the
\* upstream is free in every reply
SpecTermination ==
    InitTermination /\ [][NextTermination]_vars /\ WF_vars(NextTermination)

\* ------------------------------------------------- process_post_data

\* a JSON value of the upstream reply as Python sees it: a key that is not
\* there, a null (None), or a value
Missing == [json |-> "absent"]
Null == [json |-> "null"]
Val(v) == [json |-> "value", v |-> v]

\* dict.get(key, default): the default stands in for a key that is not there,
\* never for a null
Get(x, default) == IF x.json = "absent" THEN default ELSE x

\* ", ".join(items), a string being a sequence of characters
RECURSIVE Join(_)
Join(items) ==
    IF items = <<>> THEN <<>>
    ELSE IF Len(items) = 1 THEN Head(items)
    ELSE Head(items) \o <<",", " ">> \o Join(Tail(items))

\* createdAt.split("T")[0]: a timestamp is its date, "T" and its time of day
SplitT(ts) == ts.date
EmptyTimestamp == [date |-> "", time |-> ""]

TextFields == {"name", "tagline", "description", "url", "website"}
NumberFields == {"votesCount", "commentsCount"}
Fields == TextFields \cup NumberFields \cup {"createdAt", "topics", "thumbnail", "media", "makers"}

TopicEdge(name) == [node |-> Val([name |-> Val(name)])]
MediaItem(type, url) == [type |-> Val(type), url |-> Val(url)]
Maker(username) == Val([username |-> Val(username)])

\* a post with every field of the query in it
FullPost(id) ==
    [id |-> id,
     name |-> Val("name"), tagline |-> Val("tagline"),
     description |-> Val("description"), url |-> Val("url"),
     website |-> Val("website"),
     votesCount |-> Val(id), commentsCount |-> Val(1),
     createdAt |-> Val([date |-> "2025-01-01", time |-> "08:00:00Z"]),
     topics |-> Val([edges |-> Val(<<TopicEdge(<<"A">>), TopicEdge(<<"B">>)>>)]),
     thumbnail |-> Val([url |-> Val("thumb")]),
     media |-> Val(<<MediaItem("image", <<"i">>), MediaItem("video", <<"v">>)>>),
     makers |-> Val(<<Maker(<<"m">>), Val([username |-> Missing])>>)]

\* a post with no field but its id
BarePost(id) == [f \in Fields |-> Missing] @@ [id |-> id]

\* the posts the upstream can send: every field there, one field not there or
\* null, no field there, and the nested values not there or null
RawPosts ==
    {FullPost(1), BarePost(1)}
    \cup {[FullPost(1) EXCEPT ![f] = s] : f \in Fields, s \in {Missing, Null}}
    \cup {[FullPost(1) EXCEPT !.createdAt = Val(EmptyTimestamp)],
          [FullPost(1) EXCEPT !.topics = Val([edges |-> Missing])],
          [FullPost(1) EXCEPT !.topics = Val([edges |-> Val(<<[node |-> Null]>>)])],
          [FullPost(1) EXCEPT !.thumbnail = Val([url |-> Missing])],
          [FullPost(1) EXCEPT !.media = Val(<<[type |-> Val("image"), url |-> Missing]>>)],
          [FullPost(1) EXCEPT !.makers = Val(<<Null>>)]}

\* lines 644-647: edge["node"]["name"] for edge in
\* post.get("topics", {}).get("edges", [])
TopicEdges(post) == Get(Get(post.topics, Val([edges |-> Missing])).v.edges, Val(<<>>))
TopicsRaise(post) ==
    \/ Get(post.topics, Val([edges |-> Missing])) = Null
    \/ TopicEdges(post) = Null
    \/ \E i \in DOMAIN TopicEdges(post).v :
          LET node == TopicEdges(post).v[i].node
          IN  node.json # "value" \/ node.v.name.json # "value"
TopicNames(post) ==
    [i \in DOMAIN TopicEdges(post).v |-> TopicEdges(post).v[i].node.v.name.v]

\* lines 650-653: the usernames of post.get("makers", []) that are truthy
RECURSIVE Usernames(_)
Usernames(makers) ==
    IF makers = <<>> THEN <<>>
    ELSE LET username == Get(Head(makers).v.username, Null)
         IN  (IF username.json = "value" /\ username.v # <<>> THEN <<username.v>> ELSE <<>>)
             \o Usernames(Tail(makers))
MakersRaise(post) ==
    \/ Get(post.makers, Val(<<>>)) = Null
    \/ \E i \in DOMAIN Get(post.makers, Val(<<>>)).v :
          Get(post.makers, Val(<<>>)).v[i] = Null

\* lines 656-664: item["url"] of the items of post.get("media", []) of a type
RECURSIVE MediaUrls(_, _)
MediaUrls(items, type) ==
    IF items = <<>> THEN <<>>
    ELSE (IF Get(Head(items).type, Null) = Val(type) THEN <<Head(items).url.v>> ELSE <<>>)
         \o MediaUrls(Tail(items), type)
MediaRaise(post) ==
    \/ Get(post.media, Val(<<>>)) = Null
    \/ \E i \in DOMAIN Get(post.media, Val(<<>>)).v :
          LET item == Get(post.media, Val(<<>>)).v[i]
          IN  /\ Get(item.type, Null) \in {Val("image"), Val("video")}
              /\ item.url.json # "value"

\* line 677: post.get("thumbnail", {}).get("url", "")
ThumbnailRaise(post) == Get(post.thumbnail, Val([url |-> Missing])) = Null

\* line 675
LaunchDate(post) ==
    LET createdAt == Get(post.createdAt, Null)
    IN  IF createdAt.json = "value" /\ createdAt.v # EmptyTimestamp
        THEN SplitT(createdAt.v)
        ELSE ""

PostRaises(post) ==
    TopicsRaise(post) \/ MakersRaise(post) \/ MediaRaise(post) \/ ThumbnailRaise(post)

\* lines 667-681: the row of one post, under the header names of the flat file
ProcessedPost(post) ==
    ("Product Name" :> Get(post.name, Val("")))
    @@ ("Tagline" :> Get(post.tagline, Val("")))
    @@ ("Description" :> Get(post.description, Val("")))
    @@ ("Product URL" :> Get(post.url, Val("")))
    @@ ("Website URL" :> Get(post.website, Val("")))
    @@ ("Upvotes" :> Get(post.votesCount, Val(0)))
    @@ ("Comments Count" :> Get(post.commentsCount, Val(0)))
    @@ ("Launch Date" :> LaunchDate(post))
    @@ ("Topics" :> Join(TopicNames(post)))
    @@ ("Thumbnail Image URL" :>
            Get(Get(post.thumbnail, Val([url |-> Missing])).v.url, Val("")))
    @@ ("Gallery Image URLs" :> Join(MediaUrls(Get(post.media, Val(<<>>)).v, "image")))
    @@ ("Demo Video URL" :> Join(MediaUrls(Get(post.media, Val(<<>>)).v, "video")))
    @@ ("Makers" :> Join(Usernames(Get(post.makers, Val(<<>>)).v)))

\* process_post_data: the rows of the posts, or the exception of the first
\* post whose row cannot be built
RECURSIVE process_post_data(_)
process_post_data(posts) ==
    IF posts = <<>> THEN [raised |-> FALSE, rows |-> <<>>]
    ELSE IF PostRaises(Head(posts)) THEN [raised |-> TRUE, rows |-> <<>>]
    ELSE LET rest == process_post_data(Tail(posts))
         IN  IF rest.raised THEN rest
             ELSE [raised |-> FALSE, rows |-> <<ProcessedPost(Head(posts))>> \o rest.rows]

\* ------------------------------------------- the flat file (to_csv)

Digits == <<"0", "1", "2", "3", "4", "5", "6", "7", "8", "9">>
\* str(n) of a number of one digit
Str(n) == Digits[n + 1]

TextColumns == {"Product Name", "Tagline", "Description", "Product URL",
                "Website URL", "Thumbnail Image URL"}
NumberColumns == {"Upvotes", "Comments Count"}
JoinedColumns == {"Topics", "Gallery Image URLs", "Demo Video URL", "Makers"}
Columns == TextColumns \cup NumberColumns \cup JoinedColumns \cup {"Launch Date"}

\* DataFrame.to_csv: the text of one cell; None is written as the empty cell
CsvCell(column, value) ==
    IF column \in TextColumns
    THEN (IF value.json = "value" THEN value.v ELSE "")
    ELSE IF column \in NumberColumns
    THEN (IF value.json = "value" THEN Str(value.v) ELSE "")
    ELSE value

ToCsv(rows) == [i \in DOMAIN rows |-> [c \in Columns |-> CsvCell(c, rows[i][c])]]

FileOf(rows) == [exists |-> TRUE, rows |-> rows]
\* a flat file left by an earlier run
OldFile == FileOf(ToCsv(<<ProcessedPost(FullPost(9))>>))

export_to_csv_NoGuard(posts, file, written) ==
    IF written THEN [ok |-> TRUE, file |-> FileOf(ToCsv(posts))]
    ELSE [ok |-> FALSE, file |-> file]

\* export_to_csv: the value returned and the output file after the call;
\* written tells whether to_csv could write the file
export_to_csv(posts, file, written) ==
    IF posts = <<>> THEN [ok |-> FALSE, file |-> file]
    ELSE IF written THEN [ok |-> TRUE, file |-> FileOf(ToCsv(posts))]
    ELSE [ok |-> FALSE, file |-> file]

\* ----------------------------------- scrape_recent_days, scrape_top_posts

\* what the upstream holds: posts by id; a post may come without thumbnail
UpstreamPosts ==
    {FullPost(id) : id \in PostIds}
    \cup {[FullPost(id) EXCEPT !.thumbnail = Null] : id \in PostIds}

\* what one fetch returns: nothing (no page, a failed authentication) or some
\* posts of the upstream, a post possibly more than once
FetchResults == UNION {[1 .. n -> UpstreamPosts] : n \in 0 .. MaxFetched}

RECURSIVE Ids(_)
Ids(posts) == IF posts = <<>> THEN <<>> ELSE <<Head(posts).id>> \o Ids(Tail(posts))

Range(seq) == {seq[i] : i \in DOMAIN seq}

\* random.shuffle(day_order): some order of the days
DayOrders(days, stealth) ==
    IF stealth
    THEN {o \in [1 .. days -> 0 .. days - 1] : Range(o) = 0 .. days - 1}
    ELSE {[i \in 1 .. days |-> i - 1]}

\* line 739: the pause after the fetch of day i
PauseAfterDay(i, days, stealth) == i < days - 1 /\ stealth

\* line 770: the pause after the fetch of a period
PauseAfterPeriod(period, time_periods, stealth) ==
    period # time_periods[Len(time_periods)] /\ stealth

PauseAfter(call, item, stealth) ==
    IF call.mode = "date" THEN PauseAfterDay(item, call.days, stealth)
    ELSE PauseAfterPeriod(item, call.time_periods, stealth)

\* ------------------------------------------------- exceptions and main

\* exceptions are "KeyboardInterrupt" (a process interruption),
\* "RequestException" (a failure of requests) and "Exception" (any other)

Catches_BaseException(clause, exception) ==
    CASE clause = "KeyboardInterrupt" -> exception = "KeyboardInterrupt"
      [] clause = "RequestException" -> exception = "RequestException"
      [] clause = "Exception" -> TRUE

\* an except clause catches the exceptions of its class: KeyboardInterrupt
\* derives from BaseException, not from Exception
Catches(clause, exception) ==
    CASE clause = "KeyboardInterrupt" -> exception = "KeyboardInterrupt"
      [] clause = "RequestException" -> exception = "RequestException"
      [] clause = "Exception" -> exception \in {"RequestException", "Exception"}

\* the except clauses around a point of the run, innermost first, each with
\* the function it belongs to; those of main (lines 878, 881) are around all
MainClauses == <<[of |-> "main", clause |-> "KeyboardInterrupt"],
                 [of |-> "main", clause |-> "Exception"]>>
ExceptClauses(point) ==
    CASE point = "authenticate" ->
            <<[of |-> "authenticate", clause |-> "RequestException"],
              [of |-> "authenticate", clause |-> "Exception"]>> \o MainClauses
      [] point = "page request" ->
            <<[of |-> "fetch", clause |-> "RequestException"]>> \o MainClauses
      [] point = "export_to_csv" ->
            <<[of |-> "export_to_csv", clause |-> "Exception"]>> \o MainClauses
      [] OTHER -> MainClauses

\* the points of the run at which an exception can arrive
ScrapePoints == {"authenticate", "page request", "backoff sleep",
                 "process_post_data", "pause between days"}
PointsAt(state) ==
    CASE state = "idle" -> {"main"}
      [] state = "scraping" -> ScrapePoints
      [] state = "scraped" -> {"main", "export_to_csv"}
      [] OTHER -> {}

\* the clause that handles an exception raised at a point
RECURSIVE FirstCatching(_, _)
FirstCatching(clauses, exception) ==
    IF clauses = <<>> THEN [of |-> "nobody", clause |-> "none"]
    ELSE IF Catches(Head(clauses).clause, exception) THEN Head(clauses)
    ELSE FirstCatching(Tail(clauses), exception)
Handler(point, exception) == FirstCatching(ExceptClauses(point), exception)

\* lines 868-884: the exit statuses of main
EXIT_SUCCESS == 0
EXIT_ERROR == 1
EXIT_INTERRUPTED == 130

Exited(status, after) == [exited |-> TRUE, status |-> status, after |-> after]

\* the status main returns from the clause of its own that caught
StatusOf(handler) ==
    IF handler.clause = "KeyboardInterrupt" THEN EXIT_INTERRUPTED ELSE EXIT_ERROR

InitScrape ==
    /\ FetchIdle /\ use_stealth \in BOOLEAN /\ creds = TRUE
    /\ NormalizeIdle /\ AnalyzerIdle
    /\ spc = "idle" /\ todo = <<>> /\ scraped = <<>> /\ encountered = <<>>
    /\ output_file \in {NoFile, OldFile} /\ before_export = NoFile
    /\ export_result = "none"
    /\ scrape_call = NoCall /\ pauses = <<>>
    /\ exit_status = NotExited /\ interrupted = FALSE

\* lines 699-716: the call of scrape_recent_days up to its loop
CallScrapeRecentDays ==
    /\ spc = "idle"
    /\ \E days \in 1 .. MaxDays : \E order \in DayOrders(days, use_stealth) :
          /\ todo' = order
          /\ scrape_call' = [mode |-> "date", days |-> days]
    /\ spc' = "scraping" /\ scraped' = <<>> /\ pauses' = <<>>
    /\ UNCHANGED <<encountered, output_file, before_export, export_result,
                   exit_status, interrupted>>
    /\ UNCHANGED <<scraperVars, envVars, frameVars, obsVars, normVars, analyzerVars>>

\* lines 757-759: the call of scrape_top_posts up to its loop
CallScrapeTopPosts ==
    /\ spc = "idle"
    /\ \E time_periods \in PeriodLists :
          /\ todo' = time_periods
          /\ scrape_call' = [mode |-> "top", time_periods |-> time_periods]
    /\ spc' = "scraping" /\ scraped' = <<>> /\ pauses' = <<>>
    /\ UNCHANGED <<encountered, output_file, before_export, export_result,
                   exit_status, interrupted>>
    /\ UNCHANGED <<scraperVars, envVars, frameVars, obsVars, normVars, analyzerVars>>

\* one iteration of either loop (lines 718-742, 759-773): the fetch of the
\* day or period, process_post_data, all_posts.extend, the pause; the
\* function returns all_posts after the last iteration
ScrapeIteration ==
    /\ spc = "scraping" /\ todo # <<>>
    /\ \E posts \in FetchResults :
         LET processed == process_post_data(posts)
         IN  /\ encountered' = encountered \o Ids(posts)
             /\ IF processed.raised
                THEN /\ spc' = "raised"
                     /\ UNCHANGED <<todo, scraped, pauses>>
                ELSE /\ scraped' = scraped \o processed.rows
                     /\ pauses' = Append(pauses, PauseAfter(scrape_call, Head(todo), use_stealth))
                     /\ todo' = Tail(todo)
                     /\ spc' = IF Tail(todo) = <<>> THEN "scraped" ELSE "scraping"
    /\ UNCHANGED <<output_file, before_export, export_result, scrape_call,
                   exit_status, interrupted>>
    /\ UNCHANGED <<scraperVars, envVars, frameVars, obsVars, normVars, analyzerVars>>

\* a fetch of the loop that raises (a reply the fetch cannot read)
ScrapeFetchRaises ==
    /\ spc = "scraping" /\ todo # <<>>
    /\ spc' = "raised"
    /\ UNCHANGED <<todo, scraped, encountered, output_file, before_export,
                   export_result, scrape_call, pauses, exit_status, interrupted>>
    /\ UNCHANGED <<scraperVars, envVars, frameVars, obsVars, normVars, analyzerVars>>

\* export_to_csv on the posts that were scraped
ExportToCsv ==
    /\ spc = "scraped"
    /\ \E written \in BOOLEAN :
         LET r == export_to_csv(scraped, output_file, written)
         IN  /\ output_file' = r.file
             /\ export_result' = IF r.ok THEN "true" ELSE "false"
    /\ before_export' = output_file
    /\ spc' = "exported"
    /\ UNCHANGED <<todo, scraped, encountered, scrape_call, pauses, exit_status,
                   interrupted>>
    /\ UNCHANGED <<scraperVars, envVars, frameVars, obsVars, normVars, analyzerVars>>

\* a process interruption while main runs (lines 847-876): KeyboardInterrupt
\* is raised at the point the interpreter is at.  A clause of main ends the
\* run; a clause of export_to_csv makes it return False; a clause of
\* authenticate makes the fetch return nothing and the loop goes on
Interrupt ==
    /\ ~interrupted
    /\ \E point \in PointsAt(spc) :
         LET handler == Handler(point, "KeyboardInterrupt")
         IN  IF handler.of = "main"
             THEN /\ exit_status' = Exited(StatusOf(handler), "interrupt")
                  /\ spc' = "exited"
                  /\ UNCHANGED <<export_result, before_export>>
             ELSE IF handler.of = "export_to_csv"
             THEN /\ spc' = "exported" /\ export_result' = "false"
                  /\ before_export' = output_file
                  /\ UNCHANGED exit_status
             ELSE UNCHANGED <<spc, export_result, before_export, exit_status>>
    /\ interrupted' = TRUE
    /\ UNCHANGED <<todo, scraped, encountered, output_file, scrape_call, pauses>>
    /\ UNCHANGED <<scraperVars, envVars, frameVars, obsVars, normVars, analyzerVars>>

\* lines 866-884: main returns.  An exception of the scrape is caught by the
\* clause of line 881; posts that are exported give 0 or, the export failing,
\* 1; no post gives 0 without an export
MainReturns ==
    /\ \/ /\ spc = "raised"
          /\ exit_status' = Exited(StatusOf(Handler("main", "Exception")), "raised")
       \/ /\ spc = "exported" /\ scraped # <<>>
          /\ exit_status' = Exited(IF export_result = "true" THEN EXIT_SUCCESS
                                   ELSE EXIT_ERROR, "exported")
       \/ /\ spc = "scraped" /\ scraped = <<>>
          /\ exit_status' = Exited(EXIT_SUCCESS, "no posts")
    /\ spc' = "exited"
    /\ UNCHANGED <<todo, scraped, encountered, output_file, before_export,
                   export_result, scrape_call, pauses, interrupted>>
    /\ UNCHANGED <<scraperVars, envVars, frameVars, obsVars, normVars, analyzerVars>>

NextScrape ==
    \/ CallScrapeRecentDays
    \/ CallScrapeTopPosts
    \/ ScrapeIteration
    \/ ScrapeFetchRaises
    \/ ExportToCsv
    \/ Interrupt
    \/ MainReturns

SpecScrape == InitScrape /\ [][NextScrape]_vars

\* ----------------------------------------------- process_post_data alone

InitNormalize ==
    /\ FetchIdle /\ use_stealth = TRUE /\ creds = TRUE
    /\ ScrapeIdle /\ AnalyzerIdle
    /\ raw_posts \in UNION {[1 .. n -> RawPosts] : n \in 0 .. MaxPosts}
    /\ processed_posts = NotProcessed

ProcessPostData ==
    /\ processed_posts = NotProcessed
    /\ processed_posts' = process_post_data(raw_posts) @@ [called |-> TRUE]
    /\ UNCHANGED raw_posts
    /\ UNCHANGED <<scraperVars, envVars, frameVars, obsVars, scrapeVars, analyzerVars>>

NextNormalize == ProcessPostData

SpecNormalize == InitNormalize /\ [][NextNormalize]_vars

\* ------------------------------------------------- the analyzer: load_data

\* the calendar the launch dates are taken from, in order
Calendar == <<"2025-01-01", "2025-01-02", "2025-01-03">>
DayNumber(date) == CHOOSE i \in DOMAIN Calendar : Calendar[i] = date

\* what read_csv makes of an empty cell: NaN (NaT in a date column); no cell
\* it reads holds the empty string
NaN == ""
NaNList == <<>>

\* pd.to_numeric(errors='coerce').fillna(0).astype(int)
ToNumeric(text) ==
    IF \E n \in 0 .. 9 : Digits[n + 1] = text
    THEN CHOOSE n \in 0 .. 9 : Digits[n + 1] = text
    ELSE 0

\* pd.to_datetime raises on a text that is no date
IsDate(text) == text = NaN \/ \E i \in DOMAIN Calendar : Calendar[i] = text

\* str.split(', ')
RECURSIVE SplitFrom(_, _)
SplitFrom(s, token) ==
    IF s = <<>> THEN <<token>>
    ELSE IF Len(s) >= 2 /\ s[1] = "," /\ s[2] = " "
    THEN <<token>> \o SplitFrom(SubSeq(s, 3, Len(s)), <<>>)
    ELSE SplitFrom(Tail(s), Append(token, Head(s)))
Split(s) == IF s = NaNList THEN NaNList ELSE SplitFrom(s, <<>>)


\* lines 98-102: the typed row of a row of cells
TypedRow(cells) ==
    [c \in Columns |->
        IF c \in NumberColumns THEN ToNumeric(cells[c]) ELSE cells[c]]

\* load_data: the value returned and self.df after the call.  read_csv raises
\* on a missing file and self.df stays as it was; line 95 has assigned the
\* frame when to_datetime raises in line 98 (stage "raw") or when the .str
\* accessor of line 105 raises on a Topics column that holds no text at all
\* (stage "typed", no Topic List column)
load_data(file, old) ==
    IF ~file.exists THEN [ok |-> FALSE, df |-> old]
    ELSE IF \E i \in DOMAIN file.rows : ~IsDate(file.rows[i]["Launch Date"])
    THEN [ok |-> FALSE, df |-> [loaded |-> TRUE, stage |-> "raw", rows |-> file.rows]]
    ELSE LET typed == [i \in DOMAIN file.rows |-> TypedRow(file.rows[i])]
         IN  IF \A i \in DOMAIN typed : typed[i]["Topics"] = NaNList
             THEN [ok |-> FALSE, df |-> [loaded |-> TRUE, stage |-> "typed", rows |-> typed]]
             ELSE [ok |-> TRUE,
                   df |-> [loaded |-> TRUE, stage |-> "complete",
                           rows |-> [i \in DOMAIN typed |->
                                        typed[i] @@ ("Topic List" :> Split(typed[i]["Topics"]))]]]

\* ---------------------------------------------------------- aggregates

RECURSIVE Sum(_)
Sum(nums) == IF nums = <<>> THEN 0 ELSE Head(nums) + Sum(Tail(nums))

Column(rows, c) == [i \in DOMAIN rows |-> rows[i][c]]

\* a sort by key, largest first or smallest first; among equal keys the
\* elements keep their order or, with ties = "reversed", come out reversed
RECURSIVE Insert(_, _, _, _)
Insert(sorted, x, descending, ties) ==
    IF sorted = <<>> THEN <<x>>
    ELSE LET h == Head(sorted)
             before == IF x.key = h.key THEN ties = "reversed"
                       ELSE IF descending THEN x.key > h.key ELSE x.key < h.key
         IN  IF before THEN <<x>> \o sorted
             ELSE <<h>> \o Insert(Tail(sorted), x, descending, ties)
RECURSIVE SortFrom(_, _, _, _)
SortFrom(sorted, rest, descending, ties) ==
    IF rest = <<>> THEN sorted
    ELSE SortFrom(Insert(sorted, Head(rest), descending, ties), Tail(rest),
                  descending, ties)
SortBy(seq, Key(_), descending, ties) ==
    LET keyed == [i \in DOMAIN seq |-> [key |-> Key(seq[i]), val |-> seq[i]]]
        sorted == SortFrom(<<>>, keyed, descending, ties)
    IN  [i \in DOMAIN sorted |-> sorted[i].val]

\* lines 159-162: the tokens of every Topic List that is not NaN
RECURSIVE AllTopics(_)
AllTopics(rows) ==
    IF rows = <<>> THEN <<>>
    ELSE Head(rows)["Topic List"] \o AllTopics(Tail(rows))

Counter_NoIncrement(counts, token) ==
    IF \E i \in DOMAIN counts : counts[i].topic = token
    THEN counts
    ELSE Append(counts, [topic |-> token, count |-> 1])

\* line 165: Counter counts in the order of first encounter
Counter(counts, token) ==
    IF \E i \in DOMAIN counts : counts[i].topic = token
    THEN [i \in DOMAIN counts |->
            IF counts[i].topic = token
            THEN [counts[i] EXCEPT !.count = @ + 1] ELSE counts[i]]
    ELSE Append(counts, [topic |-> token, count |-> 1])
RECURSIVE CountAll(_, _)
CountAll(counts, tokens) ==
    IF tokens = <<>> THEN counts
    ELSE CountAll(Counter(counts, Head(tokens)), Tail(tokens))

CountOf(entry) == entry.count

\* analyze_topics: sorted(..., reverse=True) is stable
analyze_topics(frame) ==
    SortBy(CountAll(<<>>, AllTopics(frame.rows)), CountOf, TRUE, "kept")

Identity(x) == x
Upvotes(row) == row["Upvotes"]

\* the median as a fraction: the middle value, or the mean of the two
Median(nums) ==
    LET s == SortBy(nums, Identity, FALSE, "kept")
        n == Len(s)
    IN  IF n % 2 = 1 THEN [num |-> s[(n + 1) \div 2], den |-> 1]
        ELSE [num |-> s[n \div 2] + s[n \div 2 + 1], den |-> 2]
Mean(nums) == [num |-> Sum(nums), den |-> Len(nums)]
Max(nums) == CHOOSE m \in Range(nums) : \A k \in Range(nums) : k <= m

\* 'Product Name': 'count' counts the names that are not NaN
GroupCount(rows) == Len(SelectSeq(rows, LAMBDA r : r["Product Name"] # NaN))

\* lines 186-207: one row per launch date, NaT left out, in date order
DailyRow(date, rows) ==
    [date |-> date,
     products_count |-> GroupCount(rows),
     total_upvotes |-> Sum(Column(rows, "Upvotes")),
     avg_upvotes |-> Mean(Column(rows, "Upvotes")),
     median_upvotes |-> Median(Column(rows, "Upvotes")),
     max_upvotes |-> Max(Column(rows, "Upvotes")),
     total_comments |-> Sum(Column(rows, "Comments Count")),
     avg_comments |-> Mean(Column(rows, "Comments Count"))]
RECURSIVE DailyFrom(_, _)
DailyFrom(day, rows) ==
    IF day > Len(Calendar) THEN <<>>
    ELSE LET group == SelectSeq(rows, LAMBDA r : r["Launch Date"] = Calendar[day])
         IN  (IF group = <<>> THEN <<>> ELSE <<DailyRow(Calendar[day], group)>>)
             \o DailyFrom(day + 1, rows)
analyze_daily_trends(frame) == DailyFrom(1, frame.rows)

TopColumns == {"Product Name", "Tagline", "Launch Date", "Upvotes",
               "Comments Count", "Topics", "Website URL"}

Head_n_OneMore(rows, n) ==
    SubSeq(rows, 1, IF n + 1 < Len(rows) THEN n + 1 ELSE Len(rows))

\* DataFrame.head(n), n >= 0
Head_n(rows, n) == SubSeq(rows, 1, IF n < Len(rows) THEN n ELSE Len(rows))

\* lines 228-229: sort_values('Upvotes', ascending=False) with the default
\* kind, quicksort, which is free in the order of equal Upvotes
get_top_products(frame, n, ties) ==
    Head_n(SortBy([i \in DOMAIN frame.rows |-> [c \in TopColumns |-> frame.rows[i][c]]],
                  Upvotes, TRUE, ties), n)

\* lines 123-143; idxmax is the first row with the largest Upvotes
BasicStatsRaise(frame) ==
    \/ frame.rows = <<>>
    \/ \A i \in DOMAIN frame.rows : frame.rows[i]["Launch Date"] = NaN
analyze_basic_stats(frame) ==
    LET days == {DayNumber(frame.rows[i]["Launch Date"]) :
                    i \in {j \in DOMAIN frame.rows : frame.rows[j]["Launch Date"] # NaN}}
        first == CHOOSE d \in days : \A e \in days : d <= e
        last == CHOOSE d \in days : \A e \in days : e <= d
        votes == Column(frame.rows, "Upvotes")
        idxmax == CHOOSE i \in DOMAIN votes :
                     /\ votes[i] = Max(votes)
                     /\ \A j \in DOMAIN votes : votes[j] = Max(votes) => i <= j
    IN  [total_products |-> Len(frame.rows),
         date_range |-> [start |-> Calendar[first], end |-> Calendar[last],
                         days |-> last - first + 1],
         upvotes |-> [average |-> Mean(votes), median |-> Median(votes),
                      max |-> Max(votes),
                      max_product |-> frame.rows[idxmax]["Product Name"]]]

\* ------------------------------------------------------ the flat files

Names == <<"p1", "p2", "p3", "p4", "p5">>

\* the cells of the i-th row of a flat file, as export_to_csv writes them
BaseCells(i) ==
    [c \in Columns |->
        IF c = "Product Name" THEN Names[i]
        ELSE IF c \in TextColumns THEN "text"
        ELSE IF c = "Upvotes" THEN "1"
        ELSE IF c = "Comments Count" THEN Str(i)
        ELSE IF c = "Launch Date" THEN Calendar[1]
        ELSE IF c = "Topics" THEN <<"A">>
        ELSE <<>>]

TopicCells == {<<>>, <<"A">>, <<"B">>, <<"A", ",", " ", "B">>, <<"B", ",", " ", "A">>}
DateCells == {"", Calendar[1], Calendar[2]}
UpvoteCells == {"", "1", "2"}

\* flat files that differ in their topics, in their names and launch dates,
\* and in their upvotes
TopicFiles ==
    UNION {{[i \in 1 .. n |-> [BaseCells(i) EXCEPT !["Topics"] = t[i]]] :
                t \in [1 .. n -> TopicCells]} : n \in 1 .. MaxRecords}
DateFiles ==
    UNION {{[i \in 1 .. n |-> [BaseCells(i) EXCEPT !["Product Name"] = IF e[i] THEN "" ELSE @,
                                                  !["Launch Date"] = d[i],
                                                  !["Upvotes"] = Str(i)]] :
                e \in [1 .. n -> BOOLEAN], d \in [1 .. n -> DateCells]} : n \in 1 .. MaxRecords}
VoteFiles ==
    UNION {{[i \in 1 .. n |-> [BaseCells(i) EXCEPT !["Upvotes"] = u[i]]] :
                u \in [1 .. n -> UpvoteCells]} : n \in 1 .. MaxRecords}
AggregateFiles == {FileOf(rows) : rows \in TopicFiles \cup DateFiles \cup VoteFiles}

\* the flat files of the analyzer's runs: two records of equal upvotes, and
\* one record of another day with other topics
FileA == FileOf(<<BaseCells(1), [BaseCells(2) EXCEPT !["Topics"] = <<"B">>]>>)
FileB == FileOf(<<[BaseCells(3) EXCEPT !["Launch Date"] = Calendar[2],
                                       !["Upvotes"] = "2"]>>)
FlatFiles == {FileA, FileB}

\* ------------------------------------------------- the analyzer object

\* open(path, "w") and to_csv replace what the file held
WriteFile_Append(old, new) == IF old.exists THEN [exists |-> TRUE, text |-> <<old, new>>] ELSE [exists |-> TRUE, text |-> new]

WriteFile(old, new) == [exists |-> TRUE, text |-> new]

Computed(value) == [computed |-> TRUE, value |-> value]

\* the state of an analyzer as a record, for the methods that call methods
Analyzer ==
    [df |-> df, topics_count |-> topics_count, daily_stats |-> daily_stats,
     top_products |-> top_products, top_n |-> top_n]

SetAnalyzer(a) ==
    /\ df' = a.df /\ topics_count' = a.topics_count /\ daily_stats' = a.daily_stats
    /\ top_products' = a.top_products /\ top_n' = a.top_n

\* the methods on an analyzer record: each gives the analyzer after the call
\* and raised, whether the call ended in an exception
DoLoad(a, file) ==
    LET r == load_data(file, a.df)
    IN  [a |-> [a EXCEPT !.df = r.df], ok |-> r.ok, raised |-> FALSE]
DoTopics(a) ==
    IF ~a.df.loaded THEN [a |-> a, raised |-> FALSE]
    ELSE IF a.df.stage # "complete" THEN [a |-> a, raised |-> TRUE]
    ELSE [a |-> [a EXCEPT !.topics_count = Computed(analyze_topics(a.df))],
          raised |-> FALSE]
DoDaily(a) ==
    IF ~a.df.loaded THEN [a |-> a, raised |-> FALSE]
    ELSE IF a.df.stage = "raw" THEN [a |-> a, raised |-> TRUE]
    ELSE [a |-> [a EXCEPT !.daily_stats = Computed(analyze_daily_trends(a.df))],
          raised |-> FALSE]
DoTop(a, n, ties) ==
    IF ~a.df.loaded THEN [a |-> a, raised |-> FALSE]
    ELSE IF a.df.stage = "raw" THEN [a |-> a, raised |-> TRUE]
    ELSE [a |-> [a EXCEPT !.top_products = Computed(get_top_products(a.df, n, ties)),
                          !.top_n = n],
          raised |-> FALSE]

\* save_analysis, lines 338-389: the analyzer and the output directory after
\* the call.  An aggregate that is already there is written as it is (lines
\* 351, 357, 362); an exception ends the call with the files written so far
save_analysis(a, dir, ties) ==
    IF ~a.df.loaded THEN [a |-> a, dir |-> dir, ok |-> FALSE]
    ELSE IF a.df.stage = "raw" \/ BasicStatsRaise(a.df)
    THEN [a |-> a, dir |-> dir, ok |-> FALSE]
    ELSE
    LET d1 == [dir EXCEPT !.basic_stats = WriteFile(@, analyze_basic_stats(a.df))]
        t == IF a.topics_count = NotComputed THEN DoTopics(a) ELSE [a |-> a, raised |-> FALSE]
    IN  IF t.raised THEN [a |-> t.a, dir |-> d1, ok |-> FALSE]
        ELSE
        LET d2 == [d1 EXCEPT !.topic_analysis = WriteFile(@, t.a.topics_count.value)]
            y == IF t.a.daily_stats = NotComputed THEN DoDaily(t.a) ELSE [a |-> t.a, raised |-> FALSE]
            d3 == [d2 EXCEPT !.daily_trends = WriteFile(@, y.a.daily_stats.value)]
            p == IF y.a.top_products = NotComputed THEN DoTop(y.a, DEFAULT_TOP_N, ties)
                 ELSE [a |-> y.a, raised |-> FALSE]
            d4 == [d3 EXCEPT !.top_products = WriteFile(@, p.a.top_products.value)]
        IN  [a |-> p.a, dir |-> d4, ok |-> TRUE]

AnalyzerHistory == <<runs, changes, last_run, prev_run>>

\* a call of load_data on the analyzer
LoadData ==
    /\ ~analyzer_raised
    /\ LET r == DoLoad(Analyzer, data_file)
       IN  SetAnalyzer(r.a) /\ last_ok' = r.ok
    /\ last_call' = "load_data"
    /\ UNCHANGED <<data_file, analysis_dir, quicksort_ties, analyzer_raised, AnalyzerHistory>>
    /\ UNCHANGED llmVars
    /\ UNCHANGED <<scraperVars, envVars, frameVars, obsVars, normVars, scrapeVars>>

AnalyzeTopics ==
    /\ ~analyzer_raised
    /\ LET r == DoTopics(Analyzer)
       IN  SetAnalyzer(r.a) /\ analyzer_raised' = r.raised /\ last_ok' = ~r.raised
    /\ last_call' = "analyze_topics"
    /\ UNCHANGED <<data_file, analysis_dir, quicksort_ties, AnalyzerHistory>>
    /\ UNCHANGED llmVars
    /\ UNCHANGED <<scraperVars, envVars, frameVars, obsVars, normVars, scrapeVars>>

AnalyzeDailyTrends ==
    /\ ~analyzer_raised
    /\ LET r == DoDaily(Analyzer)
       IN  SetAnalyzer(r.a) /\ analyzer_raised' = r.raised /\ last_ok' = ~r.raised
    /\ last_call' = "analyze_daily_trends"
    /\ UNCHANGED <<data_file, analysis_dir, quicksort_ties, AnalyzerHistory>>
    /\ UNCHANGED llmVars
    /\ UNCHANGED <<scraperVars, envVars, frameVars, obsVars, normVars, scrapeVars>>

GetTopProducts ==
    /\ ~analyzer_raised
    /\ \E n \in (0 .. MaxN) \cup {DEFAULT_TOP_N} :
         LET r == DoTop(Analyzer, n, quicksort_ties)
         IN  SetAnalyzer(r.a) /\ analyzer_raised' = r.raised /\ last_ok' = ~r.raised
    /\ last_call' = "get_top_products"
    /\ UNCHANGED <<data_file, analysis_dir, quicksort_ties, AnalyzerHistory>>
    /\ UNCHANGED llmVars
    /\ UNCHANGED <<scraperVars, envVars, frameVars, obsVars, normVars, scrapeVars>>

SaveAnalysis ==
    /\ ~analyzer_raised
    /\ LET r == save_analysis(Analyzer, analysis_dir, quicksort_ties)
       IN  SetAnalyzer(r.a) /\ analysis_dir' = r.dir /\ last_ok' = r.ok
    /\ last_call' = "save_analysis"
    /\ UNCHANGED <<data_file, quicksort_ties, analyzer_raised, AnalyzerHistory>>
    /\ UNCHANGED llmVars
    /\ UNCHANGED <<scraperVars, envVars, frameVars, obsVars, normVars, scrapeVars>>

\* the flat file is replaced by another one (a new scrape)
ChangeFile ==
    /\ ~analyzer_raised /\ changes < MaxChanges
    /\ \E f \in FlatFiles : f # data_file /\ data_file' = f
    /\ changes' = changes + 1
    /\ UNCHANGED <<df, topics_count, daily_stats, top_products, top_n, analysis_dir,
                   quicksort_ties, last_call, last_ok, analyzer_raised, runs,
                   last_run, prev_run>>
    /\ UNCHANGED llmVars
    /\ UNCHANGED <<scraperVars, envVars, frameVars, obsVars, normVars, scrapeVars>>

\* main, lines 392-420, on a new analyzer (no narrative: no GROQ_API_KEY)
Main ==
    /\ ~analyzer_raised /\ runs < MaxRuns
    /\ LET new == [df |-> NoFrame, topics_count |-> NotComputed,
                   daily_stats |-> NotComputed, top_products |-> NotComputed, top_n |-> 0]
           l == DoLoad(new, data_file)
           raises == l.ok /\ BasicStatsRaise(l.a.df)
           t == DoTopics(l.a)
           y == DoDaily(t.a)
           p == DoTop(y.a, DEFAULT_TOP_N, quicksort_ties)
           s == save_analysis(p.a, analysis_dir, quicksort_ties)
       IN  IF ~l.ok
           THEN /\ SetAnalyzer(l.a) /\ last_ok' = FALSE
                /\ UNCHANGED <<analysis_dir, analyzer_raised>>
           ELSE IF raises
           THEN /\ SetAnalyzer(l.a) /\ last_ok' = FALSE /\ analyzer_raised' = TRUE
                /\ UNCHANGED analysis_dir
           ELSE /\ SetAnalyzer(s.a) /\ analysis_dir' = s.dir /\ last_ok' = TRUE
                /\ UNCHANGED analyzer_raised
    /\ last_call' = "main"
    /\ runs' = runs + 1 /\ prev_run' = last_run
    /\ last_run' = [ran |-> TRUE, file |-> data_file, ok |-> last_ok', dir |-> analysis_dir']
    /\ UNCHANGED <<data_file, quicksort_ties, changes>>
    /\ UNCHANGED llmVars
    /\ UNCHANGED <<scraperVars, envVars, frameVars, obsVars, normVars, scrapeVars>>

\* the aggregates of a flat file, method by method
InitAggregates ==
    /\ FetchIdle /\ use_stealth = TRUE /\ creds = TRUE
    /\ NormalizeIdle /\ ScrapeIdle
    /\ AnalyzerNew
    /\ data_file \in AggregateFiles /\ quicksort_ties \in {"kept", "reversed"}
    /\ analysis_dir = EmptyDir
    /\ last_call = "none" /\ last_ok = FALSE /\ analyzer_raised = FALSE
    /\ runs = 0 /\ changes = 0 /\ last_run = NoRun /\ prev_run = NoRun
    /\ groq_client = FALSE /\ trend_analysis = NoNarrative /\ llm_call = NoLlmCall

NextAggregates ==
    \/ LoadData
    \/ AnalyzeTopics
    \/ AnalyzeDailyTrends
    \/ GetTopProducts

SpecAggregates == InitAggregates /\ [][NextAggregates]_vars

\* an analyzer, its flat file and the runs of main
InitAnalyzer ==
    /\ FetchIdle /\ use_stealth = TRUE /\ creds = TRUE
    /\ NormalizeIdle /\ ScrapeIdle
    /\ AnalyzerNew
    /\ data_file \in FlatFiles /\ quicksort_ties \in {"kept", "reversed"}
    /\ analysis_dir = EmptyDir
    /\ last_call = "none" /\ last_ok = FALSE /\ analyzer_raised = FALSE
    /\ runs = 0 /\ changes = 0 /\ last_run = NoRun /\ prev_run = NoRun
    /\ groq_client = FALSE /\ trend_analysis = NoNarrative /\ llm_call = NoLlmCall

NextAnalyzer ==
    \/ LoadData
    \/ AnalyzeTopics
    \/ AnalyzeDailyTrends
    \/ GetTopProducts
    \/ SaveAnalysis
    \/ ChangeFile
    \/ Main

SpecAnalyzer == InitAnalyzer /\ [][NextAnalyzer]_vars
\* ------------------------------------------------------ analyze_with_llm

PRIMARY_MODEL == "llama3-70b-8192"
FALLBACK_MODEL == "llama3-8b-8192"

\* what the model service does with the requests of one call: each request is
\* answered or fails, and the answer that is used holds a JSON object, a text
\* without braces, braces that do not parse, or no choice at all
LlmReplies ==
    [primary : {"ok", "fail"}, fallback : {"ok", "fail"},
     text : {"json", "no_json", "bad_json", "no_choice"}]

FallbackNeeded_Always(primary) == TRUE

\* line 289: the except clause around the request to the primary model
FallbackNeeded(primary) == primary = "fail"

Narrative(value) == [stored |-> TRUE, value |-> value]

\* analyze_with_llm: the requests it sends, what it returns (a narrative, an
\* error payload, or an exception that leaves it) and self.trend_analysis
\* after the call.  Lines 249-250 read topics_count and top_products before
\* the try statement of line 276 begins
analyze_with_llm(a, client, stored, reply) ==
    IF ~a.df.loaded \/ ~client
    THEN [requests |-> <<>>, result |-> "error", trend_analysis |-> stored]
    ELSE IF a.topics_count = NotComputed \/ a.top_products = NotComputed
    THEN [requests |-> <<>>, result |-> "raised", trend_analysis |-> stored]
    ELSE
    LET fallback == FallbackNeeded(reply.primary)
        requests == <<PRIMARY_MODEL>> \o (IF fallback THEN <<FALLBACK_MODEL>> ELSE <<>>)
        completed == IF fallback THEN reply.fallback = "ok" ELSE reply.primary = "ok"
    IN  IF ~completed \/ reply.text = "no_choice"
        THEN [requests |-> requests, result |-> "error", trend_analysis |-> stored]
        ELSE [requests |-> requests, result |-> "narrative",
              trend_analysis |-> Narrative(IF reply.text = "json" THEN "parsed"
                                           ELSE "raw_analysis")]

\* a call of analyze_with_llm on the analyzer
AnalyzeWithLlm ==
    /\ ~analyzer_raised
    /\ \E reply \in LlmReplies :
         LET r == analyze_with_llm(Analyzer, groq_client, trend_analysis, reply)
         IN  /\ trend_analysis' = r.trend_analysis
             /\ llm_call' = [called |-> TRUE, reply |-> reply, requests |-> r.requests,
                             result |-> r.result, before |-> trend_analysis]
             /\ analyzer_raised' = (r.result = "raised")
             /\ last_ok' = (r.result = "narrative")
    /\ last_call' = "analyze_with_llm"
    /\ UNCHANGED <<data_file, df, topics_count, daily_stats, top_products, top_n,
                   analysis_dir, quicksort_ties, groq_client, AnalyzerHistory>>
    /\ UNCHANGED <<scraperVars, envVars, frameVars, obsVars, normVars, scrapeVars>>

\* an analyzer with or without a Groq client, method by method
InitNarrative ==
    /\ FetchIdle /\ use_stealth = TRUE /\ creds = TRUE
    /\ NormalizeIdle /\ ScrapeIdle
    /\ AnalyzerNew
    /\ data_file \in FlatFiles /\ quicksort_ties = "kept"
    /\ analysis_dir = EmptyDir
    /\ last_call = "none" /\ last_ok = FALSE /\ analyzer_raised = FALSE
    /\ runs = 0 /\ changes = 0 /\ last_run = NoRun /\ prev_run = NoRun
    /\ groq_client \in BOOLEAN /\ trend_analysis = NoNarrative /\ llm_call = NoLlmCall

NextNarrative ==
    \/ LoadData
    \/ AnalyzeTopics
    \/ GetTopProducts
    \/ AnalyzeWithLlm

SpecNarrative == InitNarrative /\ [][NextNarrative]_vars

\* ---------------------------------------- from the posts to the Record Set

\* export_to_csv on the rows of process_post_data; the analyzer is given the
\* path of the file
ExportRecords ==
    /\ processed_posts.called /\ ~processed_posts.raised /\ export_result = "none"
    /\ \E written \in BOOLEAN :
         LET r == export_to_csv(processed_posts.rows, output_file, written)
         IN  /\ output_file' = r.file /\ data_file' = r.file
             /\ export_result' = IF r.ok THEN "true" ELSE "false"
    /\ before_export' = output_file
    /\ UNCHANGED <<spc, todo, scraped, encountered, scrape_call, pauses, exit_status,
                   interrupted>>
    /\ UNCHANGED <<df, topics_count, daily_stats, top_products, top_n, analysis_dir,
                   quicksort_ties, last_call, last_ok, analyzer_raised, AnalyzerHistory,
                   llmVars>>
    /\ UNCHANGED <<scraperVars, envVars, frameVars, obsVars, normVars>>

\* load_data on the file that was written
LoadExported == export_result = "true" /\ LoadData

InitPipeline ==
    /\ FetchIdle /\ use_stealth = TRUE /\ creds = TRUE
    /\ ScrapeIdle /\ AnalyzerIdle
    /\ raw_posts \in UNION {[1 .. n -> RawPosts] : n \in 1 .. MaxPosts}
    /\ processed_posts = NotProcessed

NextPipeline ==
    \/ ProcessPostData
    \/ ExportRecords
    \/ LoadExported

SpecPipeline == InitPipeline /\ [][NextPipeline]_vars

\* ---------------------------------------------------------------- claims

\* C1: when a page fails on every one of its MAX_RETRIES attempts, the fetch
\* returns (it does not raise) exactly the items of the pages that succeeded
\* before, in fetch order.
C1_ExhaustedReturnsPages ==
    exit = "exhausted" =>
        /\ pc = "returned"
        /\ pageAttempts = MAX_RETRIES
        /\ result = Flatten(served)

\* a page of items was fetched, then the next page used up its attempts
C1_Witness ==
    /\ exit = "exhausted" /\ Len(served) = 1 /\ Len(result) = MaxPageItems

\* C2: when the credential cannot be acquired at the start of a fetch
\* (credentials missing, no access_token in the reply, the exchange request
\* failing), the fetch returns the empty list and has sent no page request.
C2_AuthFailureAborts ==
    (pc # "idle" /\ lastAuth.called
        /\ (lastAuth.kind \in {"no_creds", "no_token", "request_error"} \/ ~lastAuth.ok))
    => /\ pc = "returned"
       /\ result = <<>>
       /\ pageReqCount = 0 /\ lastReq = NoRequest

\* a fetch whose token exchange was answered without access_token
C2_Witness ==
    /\ pc = "returned" /\ exit = "auth_failed" /\ lastAuth.kind = "no_token"

\* C3: a page is requested at most MAX_RETRIES times, every retry carries the
\* cursor and variables of the first attempt, and a backoff sleep of
\* RETRY_DELAY * 2^attempt * jitter, jitter in 0.8 .. 1.2, follows every failed
\* attempt but the last one: MAX_RETRIES - 1 sleeps for a page that fails on
\* every attempt.
C3_RetryDiscipline ==
    /\ pageAttempts <= MAX_RETRIES
    /\ (pageAttempts > 0 =>
            /\ lastReq.cursor = firstReq.cursor
            /\ lastReq.first = firstReq.first)
    /\ (pc = "page" => backoffCount = pageAttempts)
    /\ (pc \in {"returned", "raised"} /\ pageAttempts > 0 =>
            backoffCount = pageAttempts - 1)
    /\ (exit = "exhausted" => backoffCount = MAX_RETRIES - 1)
    /\ (backoffCount > 0 =>
            /\ lastBackoff.taken
            /\ lastBackoff.after = backoffCount - 1
            /\ \E j \in JitterMin .. JitterMax :
                  lastBackoff.delay = RETRY_DELAY * Pow2(lastBackoff.after) * j)

\* a page requested with a cursor failed on all its attempts
C3_Witness ==
    /\ exit = "exhausted" /\ firstReq.cursor # None
    /\ pageAttempts = MAX_RETRIES /\ backoffCount = MAX_RETRIES - 1

\* C4: after a successful page a further page is requested if and only if that
\* page signalled more pages and (limit <= 0 or fewer than limit items have
\* been accumulated); with limit = 0 the fetch goes on as long as the upstream
\* signals more pages.
C4_FurtherPageIff ==
    LET more == /\ lastSignal = "true"
                /\ (limit <= 0 \/ Len(Flatten(served)) < limit)
    IN  /\ ((pc = "page" \/ exit \in {"exhausted", "raised"}) /\ served # <<>> => more)
        /\ (exit \in {"limit", "no_more"} /\ served # <<>> => ~more /\ lastReply = "ok")

\* with limit = 0, a third page was requested after two pages
C4_Witness ==
    /\ limit = 0 /\ Len(served) = 2 /\ pc = "page" /\ pageAttempts > 0

C6_LimitIsMaximum ==
    (pc = "returned" /\ limit > 0) => Len(result) <= limit

\* C7: no page request of a later iteration of the loop is sent when the clock
\* has reached the cached token's expiry at the start of that iteration (the
\* loop ensures a valid credential before each page).
C7_NoRequestAfterExpiry == ~staleIter

C9_FailureLeavesCredential ==
    (lastAuth.called /\ ~lastAuth.ok) =>
        /\ access_token = lastAuth.tokenBefore
        /\ token_expiry = lastAuth.expiryBefore
        /\ auth_header = lastAuth.headerBefore

\* C10: whatever the upstream replies to a page request, the fetch returns a
\* list; it never raises.
C10_NeverRaises == pc # "raised"

\* C11: the Record Set that scrape_recent_days or scrape_top_posts returns
\* holds one row per distinct post id that the fetches returned.
C11_OneRowPerPostId ==
    spc \in {"scraped", "exported"} => Len(scraped) = Cardinality(Range(encountered))

\* C12: process_post_data never raises and returns one row per post, in input
\* order, whatever the posts hold; a text or list field that is not there
\* comes out as the empty string and a numeric one as 0.
C12_NoFailurePath ==
    processed_posts.called =>
        /\ ~processed_posts.raised
        /\ Len(processed_posts.rows) = Len(raw_posts)
        /\ \A i \in DOMAIN raw_posts :
              LET post == raw_posts[i]
                  row == processed_posts.rows[i]
              IN  /\ (post.name.json = "absent" => row["Product Name"] = Val(""))
                  /\ (post.tagline.json = "absent" => row["Tagline"] = Val(""))
                  /\ (post.description.json = "absent" => row["Description"] = Val(""))
                  /\ (post.url.json = "absent" => row["Product URL"] = Val(""))
                  /\ (post.website.json = "absent" => row["Website URL"] = Val(""))
                  /\ (post.votesCount.json = "absent" => row["Upvotes"] = Val(0))
                  /\ (post.commentsCount.json = "absent" => row["Comments Count"] = Val(0))
                  /\ (post.createdAt.json = "absent" => row["Launch Date"] = "")
                  /\ (post.topics.json = "absent" => row["Topics"] = <<>>)
                  /\ (post.thumbnail.json = "absent" => row["Thumbnail Image URL"] = Val(""))
                  /\ (post.media.json = "absent" =>
                        row["Gallery Image URLs"] = <<>> /\ row["Demo Video URL"] = <<>>)
                  /\ (post.makers.json = "absent" => row["Makers"] = <<>>)

\* C13: when the fetches of a scrape return no post, the normalized sequence
\* is empty, and export_to_csv on an empty sequence returns False and leaves
\* the output file as it was (not created, not overwritten).
C13_EmptyExportFails ==
    /\ (spc \in {"scraped", "exported"} /\ encountered = <<>> => scraped = <<>>)
    /\ (spc = "exported" /\ scraped = <<>> =>
            export_result = "false" /\ output_file = before_export)

\* an export of nothing next to the flat file of an earlier run
C13_Witness ==
    /\ spc = "exported" /\ encountered = <<>> /\ scraped = <<>>
    /\ before_export = OldFile /\ export_result = "false"

\* the number of comma-separated tokens of a Topics text, none for NaN
RECURSIVE Separators(_)
Separators(text) ==
    IF Len(text) < 2 THEN 0
    ELSE IF text[1] = "," /\ text[2] = " " THEN 1 + Separators(SubSeq(text, 3, Len(text)))
    ELSE Separators(Tail(text))
TokenCount(text) == IF text = NaNList THEN 0 ELSE Separators(text) + 1
FirstEncounter(tokens, topic) ==
    CHOOSE i \in DOMAIN tokens :
        tokens[i] = topic /\ \A j \in DOMAIN tokens : tokens[j] = topic => i <= j

\* C14: the counts that analyze_topics returns sum to the number of topic
\* tokens of all records, each topic has the number of its occurrences, and the
\* entries are in non-increasing order of count, equal counts in the order in
\* which the topics are first met.
C14_TopicCounts ==
    topics_count.computed =>
        LET counts == topics_count.value
            tokens == AllTopics(df.rows)
        IN  /\ Sum([i \in DOMAIN counts |-> counts[i].count])
                   = Sum([i \in DOMAIN df.rows |-> TokenCount(df.rows[i]["Topics"])])
            /\ \A i \in DOMAIN counts :
                   counts[i].count = Cardinality({k \in DOMAIN tokens : tokens[k] = counts[i].topic})
            /\ \A i, j \in DOMAIN counts : i < j =>
                   /\ counts[i].count >= counts[j].count
                   /\ counts[i].topic # counts[j].topic
                   /\ (counts[i].count = counts[j].count =>
                          FirstEncounter(tokens, counts[i].topic)
                              < FirstEncounter(tokens, counts[j].topic))

\* topic A, met after topic B, comes first with its two occurrences
C14_Witness ==
    /\ topics_count.computed /\ Len(topics_count.value) = 2
    /\ topics_count.value[1] = [topic |-> <<"A">>, count |-> 2]
    /\ df.rows[1]["Topic List"] = <<<<"B">>, <<"A">>>>

\* C15: the products_count values of the daily rollup sum to the number of
\* records of the Record Set.
C15_CountsSumToRecords ==
    daily_stats.computed =>
        Sum([i \in DOMAIN daily_stats.value |-> daily_stats.value[i].products_count])
            = Len(df.rows)

\* C16: the daily rollup has one row for every launch date of the Record Set
\* and for no other day, and every row counts at least one product.
C16_OneRowPerLaunchDate ==
    daily_stats.computed =>
        LET daily == daily_stats.value
        IN  /\ {daily[i].date : i \in DOMAIN daily}
                   = {df.rows[i]["Launch Date"] : i \in DOMAIN df.rows} \ {NaN}
            /\ \A i, j \in DOMAIN daily : i # j => daily[i].date # daily[j].date
            /\ \A i \in DOMAIN daily : daily[i].products_count >= 1

Occurrences(seq, v) == Cardinality({i \in DOMAIN seq : seq[i] = v})

\* C17: get_top_products(n), n >= 0, returns min(n, |Record Set|) rows of the
\* Record Set in non-increasing order of Upvotes, and no record that is left
\* out has more Upvotes than a row that is returned.
C17_TopN ==
    top_products.computed =>
        LET top == Column(top_products.value, "Upvotes")
            all == Column(df.rows, "Upvotes")
        IN  /\ Len(top) = IF top_n < Len(all) THEN top_n ELSE Len(all)
            /\ \A i, j \in DOMAIN top : i < j => top[i] >= top[j]
            /\ \A v \in Range(all) :
                   /\ Occurrences(top, v) <= Occurrences(all, v)
                   /\ (Occurrences(top, v) < Occurrences(all, v) =>
                          \A i \in DOMAIN top : top[i] >= v)
            /\ Range(top) \subseteq Range(all)

\* the top 1 of two records is the second record
C17_Witness ==
    /\ top_products.computed /\ top_n = 1 /\ Len(df.rows) = 2
    /\ df.rows[1]["Upvotes"] < df.rows[2]["Upvotes"]
    /\ top_products.value[1]["Product Name"] = Names[2]

PositionIn(rows, row) ==
    CHOOSE i \in DOMAIN rows : rows[i]["Product Name"] = row["Product Name"]

\* C18: records of equal Upvotes come out of get_top_products in the order of
\* the Record Set, and of the records that tie at the cut the earlier ones are
\* kept (records told apart by their names).
C18_StableSort ==
    (top_products.computed
        /\ \A i, j \in DOMAIN df.rows :
              i # j => df.rows[i]["Product Name"] # df.rows[j]["Product Name"])
    => LET top == top_products.value
       IN  /\ \A i, j \in DOMAIN top :
                  i < j /\ top[i]["Upvotes"] = top[j]["Upvotes"] =>
                      PositionIn(df.rows, top[i]) < PositionIn(df.rows, top[j])
           /\ \A i \in DOMAIN top, k \in DOMAIN df.rows :
                  (/\ df.rows[k]["Upvotes"] = top[i]["Upvotes"]
                   /\ \A j \in DOMAIN top : top[j]["Product Name"] # df.rows[k]["Product Name"])
                  => PositionIn(df.rows, top[i]) < k

\* C19: two runs of main on the same flat file that both succeed leave the
\* same basic stats, topic counts, daily rollup and top products, whatever the
\* output directory held before the second run.
C19_RerunIdentical ==
    (last_run.ran /\ prev_run.ran /\ last_run.ok /\ prev_run.ok
        /\ last_run.file = prev_run.file)
    => last_run.dir = prev_run.dir

\* main ran twice on the file with two records of equal upvotes
C19_Witness ==
    /\ runs = 2 /\ last_call = "main" /\ last_run.ok /\ prev_run.ok
    /\ last_run.file = FileA /\ prev_run.file = FileA
    /\ analysis_dir = prev_run.dir
    /\ analysis_dir.top_products.exists

\* C20: after a save_analysis that succeeds, each of the four aggregate files
\* holds the aggregate of the Record Set that is loaded.
C20_SavedFromLoadedData ==
    (last_call = "save_analysis" /\ last_ok) =>
        /\ analysis_dir.basic_stats.text = analyze_basic_stats(df)
        /\ analysis_dir.topic_analysis.text = analyze_topics(df)
        /\ analysis_dir.daily_trends.text = analyze_daily_trends(df)
        /\ analysis_dir.top_products.text = get_top_products(df, top_n, quicksort_ties)

\* C25: a page request that follows a successful page carries the endCursor of
\* that page, and no item is appended twice (the upstream hands out every item
\* under one cursor position), also when hasNextPage comes with no endCursor.
C25_CursorAdvances ==
    /\ (served # <<>> /\ pageAttempts > 0
            /\ (pc = "page" \/ exit \in {"exhausted", "raised"})
        => lastReq.cursor = cursor)
    /\ \A i, j \in DOMAIN all_posts : i # j => all_posts[i] # all_posts[j]

\* C26: an attempt that ends in the retry path leaves all_posts, cursor and
\* has_next_page as they were; a successful attempt appends the items of its
\* page once, also when it is a retry.
C26_FailedAttemptKeepsFrame ==
    [][/\ (pageReqCount' = pageReqCount + 1 /\ lastReply' = "retryable" =>
              /\ all_posts' = all_posts /\ cursor' = cursor
              /\ has_next_page' = has_next_page /\ served' = served)
       /\ (pageReqCount' = pageReqCount + 1 /\ lastReply' = "ok" =>
              /\ Len(served') = Len(served) + 1
              /\ all_posts' = all_posts \o served'[Len(served')])]_vars

\* a page that failed twice and then succeeded with its items
C26_Witness ==
    /\ pc = "returned" /\ lastReply = "ok" /\ backoffCount = MAX_RETRIES - 1
    /\ Len(served) = 1 /\ Len(all_posts) = MaxPageItems /\ all_posts = served[1]

\* the step sends the token exchange, the step sends a page request
ExchangeSent == lastAuth' # lastAuth /\ lastAuth'.called /\ lastAuth'.exchanged
PageRequestSent == pageReqCount' = pageReqCount + 1
\* the backoff sleep the step ends with
BackoffTaken == IF backoffCount' > backoffCount THEN lastBackoff'.delay ELSE 0

\* what C24 says of every network call, with the bound it gives for the time
\* between the starts of two consecutive calls
PacingWithin(bound) ==
    (ExchangeSent \/ PageRequestSent) =>
        IF ~use_stealth
        THEN /\ last_request_time' = last_request_time
             /\ (ExchangeSent => lastAuth'.sentAt = now)
             /\ (PageRequestSent => now' - now - BackoffTaken \in Latencies)
        ELSE /\ last_request_time' >= now
             /\ (ExchangeSent => lastAuth'.sentAt = last_request_time')
             /\ (last_request_time # 0 =>
                    /\ last_request_time' - last_request_time >= PaceMin
                    /\ bound => last_request_time' - last_request_time <= PaceMax)

\* C24 as stated: with stealth disabled no network call waits for pacing; with
\* stealth enabled the pacing step precedes every network call, and two
\* consecutive calls start at least 1.0 apart and, when nothing but the call
\* itself has passed the time since the earlier one started (no backoff, no
\* pause), at most 4.0 apart.
C24_Pacing ==
    [][PacingWithin(now - last_request_time \in Latencies \cup ExchangeLatencies)]_vars

\* C24, amended: as stated, the upper bound of 4.0 holding when the time that
\* has passed since the earlier call started (the call itself and any pause)
\* does not exceed 4.0; the later call then starts without further wait.
C24_PacingWindow ==
    [][/\ PacingWithin(now - last_request_time <= PaceMax)
       /\ (use_stealth /\ PageRequestSent /\ now - last_request_time > PaceMax =>
              last_request_time' = now)]_vars

\* the first page request was held back until 4.0 after the token exchange
C24_Witness ==
    /\ use_stealth /\ pageReqCount = 1 /\ lastAuth.called /\ lastAuth.exchanged
    /\ last_request_time = lastAuth.sentAt + PaceMax

\* C27: every fetch with limit > 0 comes to an end (it returns or raises)
\* after finitely many page requests, whatever the upstream replies.
C27_Terminates == (pc = "page" /\ limit > 0) ~> (pc \in {"returned", "raised"})

\* C28: in scrape_recent_days with stealth enabled, a pause follows the fetch
\* of every day but the last one fetched, whatever the order of the days;
\* with stealth disabled no pause is taken.
C28_PauseBetweenDays ==
    scrape_call.mode = "date" =>
        \A k \in DOMAIN pauses :
            pauses[k] = (use_stealth /\ k < scrape_call.days)

\* C23: a process interruption that arrives while main scrapes or exports ends
\* main with status 130; an exception of any other kind and a failed export
\* end it with 1, a run that is not disturbed with 0.
C23_InterruptExit ==
    /\ (interrupted => exit_status.exited /\ exit_status.status = EXIT_INTERRUPTED)
    /\ (exit_status.exited /\ ~interrupted =>
            /\ exit_status.status \in {EXIT_SUCCESS, EXIT_ERROR}
            /\ (exit_status.after = "raised" => exit_status.status = EXIT_ERROR)
            /\ (exit_status.after = "exported" =>
                   (exit_status.status = EXIT_SUCCESS <=> export_result = "true"))
            /\ (exit_status.after = "no posts" => exit_status.status = EXIT_SUCCESS))
    /\ EXIT_INTERRUPTED \notin {EXIT_SUCCESS, EXIT_ERROR}

\* the interruption arrived when the posts of two fetches were to be exported
C23_Witness ==
    /\ interrupted /\ exit_status.exited /\ exit_status.status = EXIT_INTERRUPTED
    /\ Len(pauses) = 2 /\ scraped # <<>> /\ export_result = "none"

\* C21: analyze_with_llm returns a narrative or an error payload in every
\* state of the analyzer; it never raises.
C21_LlmNeverRaises ==
    llm_call.called => llm_call.result \in {"narrative", "error"}

\* C22: the fallback model is requested once if and only if the request to
\* the primary model failed, a call sends at most two requests, the primary
\* one first, and when both fail the call returns an error payload and the
\* stored narrative is as it was.
C22_FallbackOnce ==
    llm_call.called =>
        /\ Len(llm_call.requests) <= 2
        /\ (llm_call.requests # <<>> =>
               /\ llm_call.requests[1] = PRIMARY_MODEL
               /\ Occurrences(llm_call.requests, PRIMARY_MODEL) = 1
               /\ Occurrences(llm_call.requests, FALLBACK_MODEL)
                     = IF llm_call.reply.primary = "fail" THEN 1 ELSE 0
               /\ (llm_call.reply.primary = "fail" /\ llm_call.reply.fallback = "fail" =>
                      llm_call.result = "error" /\ trend_analysis = llm_call.before))
        /\ (llm_call.requests = <<>> => llm_call.result # "narrative")
        /\ (llm_call.result # "narrative" => trend_analysis = llm_call.before)

\* both requests failed on an analyzer that holds a narrative of an earlier call
C22_Witness ==
    /\ llm_call.called /\ llm_call.requests = <<PRIMARY_MODEL, FALLBACK_MODEL>>
    /\ llm_call.reply.fallback = "fail" /\ llm_call.result = "error"
    /\ llm_call.before.stored /\ trend_analysis = llm_call.before

\* C29: export_to_csv on the records of process_post_data, when it returns
\* True, is followed by a load_data that returns True and loads as many rows,
\* in the same order; the columns the analyzer reads are columns of the file.
C29_RoundTrip ==
    /\ TopColumns \cup NumberColumns \cup {"Launch Date", "Topics"} \subseteq Columns
    /\ (export_result = "true" /\ last_call = "load_data" =>
            /\ last_ok
            /\ Len(df.rows) = Len(processed_posts.rows)
            /\ \A i \in DOMAIN df.rows :
                   df.rows[i]["Product Name"]
                       = CsvCell("Product Name", processed_posts.rows[i]["Product Name"]))

\* C30: after a load_data that returns False the analyzer holds no Record
\* Set, and no method that is called afterwards raises.
C30_FailedLoadHoldsNothing ==
    /\ (last_call = "load_data" /\ ~last_ok => df = NoFrame)
    /\ ~analyzer_raised

====
